---- MODULE Spec2Model ----
(***************************************************************************)
(* Model of the note-taking API of src/main.py: three collections          *)
(* (workspace, page, block) of a document store, and the request handlers  *)
(* that read and write them.  A handler that makes two store calls is two  *)
(* steps; other requests may run between them.                             *)
(***************************************************************************)
EXTENDS Integers, Sequences, FiniteSets, TLC

(* ------------------------------ bounds --------------------------------- *)

\* Number of ObjectIds the store generates in one behaviour.
MaxIds == 3

\* Number of blocks the store holds at once.
MaxBlocks == 2

\* Largest block position a client sends (the smallest is -1).
MaxPos == 0

(* --------------------------- identifier strings ------------------------ *)

\* A 24-character hexadecimal string: the digits of native id n, written in
\* lower or in upper case.
Hex24(n, up) == [chars |-> "hex24", n |-> n, upper |-> up]

\* The empty string and a wrong-length token.
EmptyStr == [chars |-> "empty", n |-> 0, upper |-> FALSE]
ShortStr == [chars |-> "short", n |-> 0, upper |-> FALSE]

NativeIds == 1..MaxIds

\* The identifier strings a client sends in a path: a path segment is not empty.
IdStrings == {Hex24(n, up) : n \in NativeIds, up \in BOOLEAN} \cup {ShortStr}

\* Python's None, and a present value, as they appear in a pydantic model.
PyNone == [p |-> "None"]
Val(v) == [p |-> "val", v |-> v]

\* A field of a JSON request body: left out, sent as null, or sent with a value.
Absent == [p |-> "absent"]
Null == [p |-> "null"]

\* The absence of a document (find_one's None).
None == [none |-> TRUE]

\* bson.ObjectId(id_str) succeeds exactly on 24 hexadecimal characters, in
\* either case; str(ObjectId) is the lower-case form.
IsValidOid(s) == s.chars = "hex24"
ObjectId(s) == s.n
str(oid) == Hex24(oid, FALSE)

\* ensure_object_id raises HTTPException(400) unless ObjectId accepts the string.
ensure_object_id_raises(s) == ~IsValidOid(s)

\* serialize: a missing document is returned as it is; otherwise _id is
\* rendered as a string.
serialize(doc) == IF doc = None THEN doc ELSE [doc EXCEPT !._id = str(doc._id)]

(* ------------------------------- state --------------------------------- *)

VARIABLES
    workspace,  \* the "workspace" collection, in insertion order
    page,       \* the "page" collection, in insertion order
    block,      \* the "block" collection, in insertion order
    nextId,     \* the next ObjectId the store generates
    inflight,   \* per handler slot: a request between its two store calls
    resp        \* the last response sent, with the request it answers

vars == <<workspace, page, block, nextId, inflight, resp>>

\* Handler slots: two requests can be between their store calls at once.
Slots == {1, 2}

Idle == [op |-> "idle"]

AllIdle == \A s \in Slots : inflight[s].op = "idle"

\* Creations that have passed their existence check and not yet inserted.
PendingCreates == Cardinality({s \in Slots : inflight[s].op \in {"create_page", "create_block"}})

PendingBlocks == Cardinality({s \in Slots : inflight[s].op = "create_block"})

(* --------------------------- the document store ------------------------ *)

\* collection.find_one({"_id": oid})
find_one(coll, oid) ==
    IF \E i \in DOMAIN coll : coll[i]._id = oid
    THEN coll[CHOOSE i \in DOMAIN coll : coll[i]._id = oid /\ \A j \in 1..(i - 1) : coll[j]._id # oid]
    ELSE None

\* The update written as a replacement document instead of under $set.
ReplaceFields(doc, update) ==
    [f \in {"_id"} \cup DOMAIN update |-> IF f \in DOMAIN update THEN update[f] ELSE doc[f]]

\* $set: the fields of update replace or extend those of the document.
SetFields(doc, update) ==
    [f \in DOMAIN doc \cup DOMAIN update |-> IF f \in DOMAIN update THEN update[f] ELSE doc[f]]

\* collection.update_one({"_id": oid}, {"$set": update}): matched_count and the collection after.
matched_count(coll, oid) == IF find_one(coll, oid) = None THEN 0 ELSE 1

update_one(coll, oid, update) ==
    LET first == CHOOSE i \in DOMAIN coll : coll[i]._id = oid /\ \A j \in 1..(i - 1) : coll[j]._id # oid
    IN  IF matched_count(coll, oid) = 0 THEN coll
        ELSE [i \in DOMAIN coll |-> IF i = first THEN SetFields(coll[i], update) ELSE coll[i]]

\* collection.delete_one({"_id": oid}): deleted_count and the collection after.
deleted_count(coll, oid) == IF find_one(coll, oid) = None THEN 0 ELSE 1

delete_one(coll, oid) ==
    LET first == CHOOSE i \in DOMAIN coll : coll[i]._id = oid /\ \A j \in 1..(i - 1) : coll[j]._id # oid
    IN  IF deleted_count(coll, oid) = 0 THEN coll
        ELSE SubSeq(coll, 1, first - 1) \o SubSeq(coll, first + 1, Len(coll))

\* db["block"].delete_many({"page_id": page_id}): exact match on the stored string.
delete_many_page_id(coll, page_id) == SelectSeq(coll, LAMBDA d : d.page_id # page_id)

\* database.create_document(collection, data): inserts data under a fresh id
\* and returns the id as a string.
create_document(coll, data) == Append(coll, [_id |-> nextId] @@ data)

\* database.get_documents(collection, filter): the matching documents in the
\* store's natural (insertion) order.
get_documents(coll, filt) == SelectSeq(coll, LAMBDA d : \A k \in DOMAIN filt : d[k] = filt[k])

(* ----------------------------- entity model ---------------------------- *)

\* The fields UpdatePage and UpdateBlock declare; pydantic drops any other
\* key of the request body.
UpdatePage == {"title"}
UpdateBlock == {"content", "checked", "position"}

\* Every declared field is Optional with default None, so a field left out
\* and a field sent as null both read None.
ParseOptional(body, f) == IF f \in DOMAIN body /\ body[f].p = "val" THEN Val(body[f].v) ELSE PyNone

\* payload.model_dump() of the model built from a request body.
model_dump(declared, body) == [f \in declared |-> ParseOptional(body, f)]

\* Python's truth value of a field's value.
Falsy(f, v) ==
    CASE f \in {"title", "content"} -> v = ""
      [] f = "checked" -> v = FALSE
      [] f = "position" -> v = 0

\* The mapping filtered by "if v" instead of "if v is not None".
update_mapping_if_truthy(declared, body) ==
    LET dump == model_dump(declared, body)
    IN  [f \in {k \in declared : dump[k] # PyNone /\ ~Falsy(k, dump[k].v)} |-> dump[f].v]

\* update = {k: v for k, v in payload.model_dump().items() if v is not None}
update_mapping(declared, body) ==
    LET dump == model_dump(declared, body)
    IN  [f \in {k \in declared : dump[k] # PyNone} |-> dump[f].v]

\* A response, with the request it answers and the number of store calls the
\* handler made.
Response(op, id, body, status, result, calls) ==
    [op |-> op, id |-> id, body |-> body, status |-> status, result |-> result, calls |-> calls]

InvalidId(op, id, body) == Response(op, id, body, 400, "Invalid id", 0)

(* ------------------------- workspace endpoints ------------------------- *)

\* POST /api/workspaces
create_workspace(payload) ==
    /\ nextId + PendingCreates <= MaxIds
    /\ workspace' = create_document(workspace, payload)
    /\ nextId' = nextId + 1
    /\ resp' = Response("create_workspace", PyNone, payload, 200, [_id |-> str(nextId)] @@ payload, 1)
    /\ UNCHANGED <<page, block, inflight>>

\* list_workspaces reading one document (find_one) instead of all of them.
list_workspaces_first ==
    /\ resp' = Response("list_workspaces", PyNone, PyNone, 200,
                        [i \in DOMAIN workspace \cap {1} |-> serialize(workspace[i])], 1)
    /\ UNCHANGED <<workspace, page, block, nextId, inflight>>

\* GET /api/workspaces
list_workspaces ==
    /\ resp' = Response("list_workspaces", PyNone, PyNone, 200,
                        [i \in DOMAIN workspace |-> serialize(workspace[i])], 1)
    /\ UNCHANGED <<workspace, page, block, nextId, inflight>>

(* ---------------------------- page endpoints --------------------------- *)

\* create_page without the check that the workspace exists.
create_page_unchecked(s, payload) ==
    /\ inflight[s].op = "idle"
    /\ IF ensure_object_id_raises(payload.workspace_id)
       THEN /\ resp' = InvalidId("create_page", payload.workspace_id, payload)
            /\ UNCHANGED inflight
       ELSE /\ nextId + PendingCreates < MaxIds + 1
            /\ inflight' = [inflight EXCEPT ![s] = [op |-> "create_page", payload |-> payload]]
            /\ UNCHANGED resp
    /\ UNCHANGED <<workspace, page, block, nextId>>

\* POST /api/pages, up to the insert: parse workspace_id, look the workspace up.
create_page_find(s, payload) ==
    /\ inflight[s].op = "idle"
    /\ IF ensure_object_id_raises(payload.workspace_id)
       THEN /\ resp' = InvalidId("create_page", payload.workspace_id, payload)
            /\ UNCHANGED inflight
       ELSE IF find_one(workspace, ObjectId(payload.workspace_id)) = None
       THEN /\ resp' = Response("create_page", payload.workspace_id, payload, 404, "Workspace not found", 1)
            /\ UNCHANGED inflight
       ELSE /\ nextId + PendingCreates < MaxIds + 1
            /\ inflight' = [inflight EXCEPT ![s] = [op |-> "create_page", payload |-> payload]]
            /\ UNCHANGED resp
    /\ UNCHANGED <<workspace, page, block, nextId>>

\* POST /api/pages, the insert and the response.
create_page_insert(s) ==
    /\ inflight[s].op = "create_page"
    /\ page' = create_document(page, inflight[s].payload)
    /\ nextId' = nextId + 1
    /\ resp' = Response("create_page", inflight[s].payload.workspace_id, inflight[s].payload, 200,
                        [_id |-> str(nextId)] @@ inflight[s].payload, 2)
    /\ inflight' = [inflight EXCEPT ![s] = Idle]
    /\ UNCHANGED <<workspace, block>>

\* GET /api/pages?workspace_id=: the filter is applied only when the parameter
\* is truthy (neither missing nor the empty string).
list_pages(workspace_id) ==
    LET truthy == workspace_id # PyNone /\ workspace_id # EmptyStr
        filt == IF truthy THEN [workspace_id |-> workspace_id] ELSE <<>>
        items == get_documents(page, filt)
    IN  /\ resp' = Response("list_pages", workspace_id, PyNone, 200,
                            [i \in DOMAIN items |-> serialize(items[i])], 1)
        /\ UNCHANGED <<workspace, page, block, nextId, inflight>>

\* update_page with update_one(..., upsert=True): an unmatched update
\* inserts the mapping under the id of the request.
update_page_upsert(s, page_id, body) ==
    LET update == update_mapping(UpdatePage, body)
    IN  /\ inflight[s].op = "idle"
        /\ IF DOMAIN update = {}
           THEN /\ resp' = Response("update_page", page_id, body, 200, [_id |-> page_id], 0)
                /\ UNCHANGED <<page, inflight>>
           ELSE IF ensure_object_id_raises(page_id)
           THEN /\ resp' = InvalidId("update_page", page_id, body)
                /\ UNCHANGED <<page, inflight>>
           ELSE IF matched_count(page, ObjectId(page_id)) = 0
           THEN /\ resp' = Response("update_page", page_id, body, 404, "Page not found", 1)
                /\ page' = Append(page, [_id |-> ObjectId(page_id)] @@ update)
                /\ UNCHANGED inflight
           ELSE /\ page' = update_one(page, ObjectId(page_id), update)
                /\ inflight' = [inflight EXCEPT ![s] = [op |-> "update_page", id |-> page_id, body |-> body]]
                /\ UNCHANGED resp
        /\ UNCHANGED <<workspace, block, nextId>>

\* PATCH /api/pages/{page_id}, up to the re-fetch.
update_page_update(s, page_id, body) ==
    LET update == update_mapping(UpdatePage, body)
    IN  /\ inflight[s].op = "idle"
        /\ IF DOMAIN update = {}
           THEN /\ resp' = Response("update_page", page_id, body, 200, [_id |-> page_id], 0)
                /\ UNCHANGED <<page, inflight>>
           ELSE IF ensure_object_id_raises(page_id)
           THEN /\ resp' = InvalidId("update_page", page_id, body)
                /\ UNCHANGED <<page, inflight>>
           ELSE IF matched_count(page, ObjectId(page_id)) = 0
           THEN /\ resp' = Response("update_page", page_id, body, 404, "Page not found", 1)
                /\ UNCHANGED <<page, inflight>>
           ELSE /\ page' = update_one(page, ObjectId(page_id), update)
                /\ inflight' = [inflight EXCEPT ![s] = [op |-> "update_page", id |-> page_id, body |-> body]]
                /\ UNCHANGED resp
        /\ UNCHANGED <<workspace, block, nextId>>

\* PATCH /api/pages/{page_id}, the re-fetch and the response.
update_page_find(s) ==
    /\ inflight[s].op = "update_page"
    /\ resp' = Response("update_page", inflight[s].id, inflight[s].body, 200,
                        serialize(find_one(page, ObjectId(inflight[s].id))), 2)
    /\ inflight' = [inflight EXCEPT ![s] = Idle]
    /\ UNCHANGED <<workspace, page, block, nextId>>

\* DELETE /api/pages/{page_id}, up to the cascade: parse the id, delete the page.
delete_page_delete_one(s, page_id) ==
    /\ inflight[s].op = "idle"
    /\ IF ensure_object_id_raises(page_id)
       THEN /\ resp' = InvalidId("delete_page", page_id, PyNone)
            /\ UNCHANGED <<page, inflight>>
       ELSE /\ page' = delete_one(page, ObjectId(page_id))
            /\ inflight' = [inflight EXCEPT ![s] =
                               [op |-> "delete_page", id |-> page_id,
                                deleted_count |-> deleted_count(page, ObjectId(page_id))]]
            /\ UNCHANGED resp
    /\ UNCHANGED <<workspace, block, nextId>>

\* delete_page with the cascade run only when a page was removed.
delete_page_cascade_if_found(s) ==
    /\ inflight[s].op = "delete_page"
    /\ block' = IF inflight[s].deleted_count = 0 THEN block ELSE delete_many_page_id(block, inflight[s].id)
    /\ resp' = IF inflight[s].deleted_count = 0
               THEN Response("delete_page", inflight[s].id, PyNone, 404, "Page not found", 2)
               ELSE Response("delete_page", inflight[s].id, PyNone, 200, [deleted |-> TRUE], 2)
    /\ inflight' = [inflight EXCEPT ![s] = Idle]
    /\ UNCHANGED <<workspace, page, nextId>>

\* DELETE /api/pages/{page_id}, the cascade and the response.
delete_page_delete_many(s) ==
    /\ inflight[s].op = "delete_page"
    /\ block' = delete_many_page_id(block, inflight[s].id)
    /\ resp' = IF inflight[s].deleted_count = 0
               THEN Response("delete_page", inflight[s].id, PyNone, 404, "Page not found", 2)
               ELSE Response("delete_page", inflight[s].id, PyNone, 200, [deleted |-> TRUE], 2)
    /\ inflight' = [inflight EXCEPT ![s] = Idle]
    /\ UNCHANGED <<workspace, page, nextId>>

(* --------------------------- block endpoints --------------------------- *)

\* create_block without the check that the page exists.
create_block_unchecked(s, payload) ==
    /\ inflight[s].op = "idle"
    /\ IF ensure_object_id_raises(payload.page_id)
       THEN /\ resp' = InvalidId("create_block", payload.page_id, payload)
            /\ UNCHANGED inflight
       ELSE /\ nextId + PendingCreates < MaxIds + 1
            /\ Len(block) + PendingBlocks < MaxBlocks
            /\ inflight' = [inflight EXCEPT ![s] = [op |-> "create_block", payload |-> payload]]
            /\ UNCHANGED resp
    /\ UNCHANGED <<workspace, page, block, nextId>>

\* POST /api/blocks, up to the insert: parse page_id, look the page up.
create_block_find(s, payload) ==
    /\ inflight[s].op = "idle"
    /\ IF ensure_object_id_raises(payload.page_id)
       THEN /\ resp' = InvalidId("create_block", payload.page_id, payload)
            /\ UNCHANGED inflight
       ELSE IF find_one(page, ObjectId(payload.page_id)) = None
       THEN /\ resp' = Response("create_block", payload.page_id, payload, 404, "Page not found", 1)
            /\ UNCHANGED inflight
       ELSE /\ nextId + PendingCreates < MaxIds + 1
            /\ Len(block) + PendingBlocks < MaxBlocks
            /\ inflight' = [inflight EXCEPT ![s] = [op |-> "create_block", payload |-> payload]]
            /\ UNCHANGED resp
    /\ UNCHANGED <<workspace, page, block, nextId>>

\* create_block that looks the page up again at the insert and answers 404
\* without inserting when the page is gone.
create_block_insert_rechecked(s) ==
    /\ inflight[s].op = "create_block"
    /\ IF find_one(page, ObjectId(inflight[s].payload.page_id)) = None
       THEN /\ resp' = Response("create_block", inflight[s].payload.page_id, inflight[s].payload, 404,
                                "Page not found", 2)
            /\ UNCHANGED <<block, nextId>>
       ELSE /\ block' = create_document(block, inflight[s].payload)
            /\ nextId' = nextId + 1
            /\ resp' = Response("create_block", inflight[s].payload.page_id, inflight[s].payload, 200,
                                [_id |-> str(nextId)] @@ inflight[s].payload, 2)
    /\ inflight' = [inflight EXCEPT ![s] = Idle]
    /\ UNCHANGED <<workspace, page>>

\* POST /api/blocks, the insert and the response.
create_block_insert(s) ==
    /\ inflight[s].op = "create_block"
    /\ block' = create_document(block, inflight[s].payload)
    /\ nextId' = nextId + 1
    /\ resp' = Response("create_block", inflight[s].payload.page_id, inflight[s].payload, 200,
                        [_id |-> str(nextId)] @@ inflight[s].payload, 2)
    /\ inflight' = [inflight EXCEPT ![s] = Idle]
    /\ UNCHANGED <<workspace, page>>

\* An insertion that puts a block before those of equal position.
InsertBeforeEqual(sorted, d) ==
    LET k == Cardinality({i \in DOMAIN sorted : sorted[i].position < d.position})
    IN  SubSeq(sorted, 1, k) \o <<d>> \o SubSeq(sorted, k + 1, Len(sorted))

\* items.sort(key=lambda x: x.get("position", 0)): Python's sort is stable.
InsertByPosition(sorted, d) ==
    LET k == Cardinality({i \in DOMAIN sorted : sorted[i].position <= d.position})
    IN  SubSeq(sorted, 1, k) \o <<d>> \o SubSeq(sorted, k + 1, Len(sorted))

RECURSIVE sort_by_position(_)
sort_by_position(items) ==
    IF items = <<>> THEN <<>>
    ELSE InsertByPosition(sort_by_position(SubSeq(items, 1, Len(items) - 1)), items[Len(items)])

\* The body of GET /api/blocks?page_id=: filter on the exact string, sort, serialize.
list_blocks_result(page_id) ==
    LET items == sort_by_position(get_documents(block, [page_id |-> page_id]))
    IN  [i \in DOMAIN items |-> serialize(items[i])]

\* GET /api/blocks?page_id=
list_blocks(page_id) ==
    /\ resp' = Response("list_blocks", page_id, PyNone, 200, list_blocks_result(page_id), 1)
    /\ UNCHANGED <<workspace, page, block, nextId, inflight>>

\* update_block without the early return on an empty update.
update_block_no_early_return(s, block_id, body) ==
    LET update == update_mapping(UpdateBlock, body)
    IN  /\ inflight[s].op = "idle"
        /\ IF ensure_object_id_raises(block_id)
           THEN /\ resp' = InvalidId("update_block", block_id, body)
                /\ UNCHANGED <<block, inflight>>
           ELSE IF matched_count(block, ObjectId(block_id)) = 0
           THEN /\ resp' = Response("update_block", block_id, body, 404, "Block not found", 1)
                /\ UNCHANGED <<block, inflight>>
           ELSE /\ block' = update_one(block, ObjectId(block_id), update)
                /\ inflight' = [inflight EXCEPT ![s] = [op |-> "update_block", id |-> block_id, body |-> body]]
                /\ UNCHANGED resp
        /\ UNCHANGED <<workspace, page, nextId>>

\* PATCH /api/blocks/{block_id}, up to the re-fetch.
update_block_update(s, block_id, body) ==
    LET update == update_mapping(UpdateBlock, body)
    IN  /\ inflight[s].op = "idle"
        /\ IF DOMAIN update = {}
           THEN /\ resp' = Response("update_block", block_id, body, 200, [_id |-> block_id], 0)
                /\ UNCHANGED <<block, inflight>>
           ELSE IF ensure_object_id_raises(block_id)
           THEN /\ resp' = InvalidId("update_block", block_id, body)
                /\ UNCHANGED <<block, inflight>>
           ELSE IF matched_count(block, ObjectId(block_id)) = 0
           THEN /\ resp' = Response("update_block", block_id, body, 404, "Block not found", 1)
                /\ UNCHANGED <<block, inflight>>
           ELSE /\ block' = update_one(block, ObjectId(block_id), update)
                /\ inflight' = [inflight EXCEPT ![s] = [op |-> "update_block", id |-> block_id, body |-> body]]
                /\ UNCHANGED resp
        /\ UNCHANGED <<workspace, page, nextId>>

\* PATCH /api/blocks/{block_id}, the re-fetch and the response.
update_block_find(s) ==
    /\ inflight[s].op = "update_block"
    /\ resp' = Response("update_block", inflight[s].id, inflight[s].body, 200,
                        serialize(find_one(block, ObjectId(inflight[s].id))), 2)
    /\ inflight' = [inflight EXCEPT ![s] = Idle]
    /\ UNCHANGED <<workspace, page, block, nextId>>

\* delete_block without the test of deleted_count: always confirms.
delete_block_always_confirms(block_id) ==
    /\ IF ensure_object_id_raises(block_id)
       THEN /\ resp' = InvalidId("delete_block", block_id, PyNone)
            /\ UNCHANGED block
       ELSE /\ block' = delete_one(block, ObjectId(block_id))
            /\ resp' = Response("delete_block", block_id, PyNone, 200, [deleted |-> TRUE], 1)
    /\ UNCHANGED <<workspace, page, nextId, inflight>>

\* DELETE /api/blocks/{block_id}
delete_block(block_id) ==
    /\ IF ensure_object_id_raises(block_id)
       THEN /\ resp' = InvalidId("delete_block", block_id, PyNone)
            /\ UNCHANGED block
       ELSE /\ block' = delete_one(block, ObjectId(block_id))
            /\ resp' = IF deleted_count(block, ObjectId(block_id)) = 0
                       THEN Response("delete_block", block_id, PyNone, 404, "Block not found", 1)
                       ELSE Response("delete_block", block_id, PyNone, 200, [deleted |-> TRUE], 1)
    /\ UNCHANGED <<workspace, page, nextId, inflight>>

(* ------------------------------ requests ------------------------------- *)

OptionalOf(values) == {Absent, Null} \cup {Val(v) : v \in values}

Positions == (0 - 1)..MaxPos

\* The canonical (lower-case) identifier strings and a wrong-length token.
LowerIds == {str(n) : n \in NativeIds} \cup {ShortStr}

\* The requests clients send one at a time when the properties are about which
\* entities exist: every identifier string, few field values.
Hierarchy ==
    [ids |-> IdStrings,
     pageIds |-> IdStrings,
     createWorkspace |-> {[name |-> "Eng"]},
     createPage |-> [workspace_id : IdStrings \cup {EmptyStr}, title : {"Untitled"}],
     updatePage |-> [title : {Absent, Val(""), Val("Notes")}],
     createBlock |-> [page_id : IdStrings \cup {EmptyStr}, type : {"text", "heading"}, content : {""}, checked : {FALSE},
                      position : {0}],
     updateBlock |-> [content : {Absent, Val("c")}, checked : {Absent}, position : {Absent, Val(0 - 1)}]]

\* The requests clients send concurrently: a workspace is named by every
\* identifier string, a page or a block by the canonical ones.
Concurrent ==
    [ids |-> LowerIds,
     pageIds |-> LowerIds,
     createWorkspace |-> {[name |-> "Eng"]},
     createPage |-> [workspace_id : IdStrings, title : {"Untitled"}],
     updatePage |-> [title : {Absent, Val(""), Val("Notes")}],
     createBlock |-> [page_id : LowerIds, type : {"text"}, content : {""}, checked : {FALSE}, position : {0}],
     updateBlock |-> [content : {Absent, Val("c")}, checked : {Absent}, position : {Absent}]]

\* A workspace and a page created before the behaviour starts, under ids the
\* store does not generate again.
SeedWorkspace == MaxIds + 1
SeedPage == MaxIds + 2

FieldIds == {str(n) : n \in NativeIds \cup {SeedWorkspace, SeedPage}} \cup {ShortStr}

\* The requests clients send one at a time when the properties are about the
\* fields of a record: the canonical identifier strings, every field value.
Fields ==
    [ids |-> FieldIds,
     pageIds |-> FieldIds,
     createWorkspace |-> {[name |-> "Eng"]},
     createPage |-> [workspace_id : FieldIds, title : {"Untitled"}],
     updatePage |-> [title : OptionalOf({""})] \cup {[title |-> Val(""), workspace_id |-> Val(ShortStr)]},
     createBlock |-> [page_id : FieldIds, type : {"todo"}, content : {"c"},
                      checked : {TRUE}, position : Positions],
     updateBlock |-> [content : OptionalOf({""}), checked : {Absent, Val(FALSE)}, position : {Absent, Val(0)}]
                     \cup {[content |-> Val(""), type |-> Val("text"), page_id |-> Val(ShortStr)]}]

\* The handler slot a new request takes.
FreeSlot == CHOOSE s \in Slots : inflight[s].op = "idle" /\ \A t \in Slots : t < s => inflight[t].op # "idle"

HasFreeSlot == \E s \in Slots : inflight[s].op = "idle"

NoResponse == Response("none", PyNone, PyNone, 0, PyNone, 0)

Init ==
    /\ workspace = <<>>
    /\ page = <<>>
    /\ block = <<>>
    /\ nextId = 1
    /\ inflight = [s \in Slots |-> Idle]
    /\ resp = NoResponse

\* The response leaves the server: the transport layer sends the handler's
\* return value (or the HTTPException) to the client.
deliver ==
    /\ resp.op # "none"
    /\ resp' = NoResponse
    /\ UNCHANGED <<workspace, page, block, nextId, inflight>>

\* A request arrives and runs up to its first store call, or to its response.
Arrive(U) ==
    /\ HasFreeSlot
    /\ resp.op = "none"
    /\ \/ \E payload \in U.createWorkspace : create_workspace(payload)
       \/ list_workspaces
       \/ \E payload \in U.createPage : create_page_find(FreeSlot, payload)
       \/ \E w \in U.ids \cup {EmptyStr, PyNone} : list_pages(w)
       \/ \E id \in U.ids, body \in U.updatePage : update_page_update(FreeSlot, id, body)
       \/ \E id \in U.pageIds : delete_page_delete_one(FreeSlot, id)
       \/ \E payload \in U.createBlock : create_block_find(FreeSlot, payload)
       \/ \E id \in U.ids \cup {EmptyStr} : list_blocks(id)
       \/ \E id \in U.ids, body \in U.updateBlock : update_block_update(FreeSlot, id, body)
       \/ \E id \in U.ids : delete_block(id)

\* A request between its store calls makes the second one and responds.
Continue ==
    /\ resp.op = "none"
    /\ \E s \in Slots :
        \/ create_page_insert(s)
        \/ update_page_find(s)
        \/ delete_page_delete_many(s)
        \/ create_block_insert(s)
        \/ update_block_find(s)

Next == Arrive(Concurrent) \/ Continue \/ deliver

Spec == Init /\ [][Next]_vars

\* Requests handled one at a time: none arrives while another is in progress.
SeqNext == (AllIdle /\ Arrive(Hierarchy)) \/ Continue \/ deliver

SeqSpec == Init /\ [][SeqNext]_vars

\* Requests handled one at a time, with every field value.
FieldsNext == (AllIdle /\ Arrive(Fields)) \/ Continue \/ deliver

\* The store holds one workspace with one page when the behaviour starts.
FieldsInit ==
    /\ workspace = <<[_id |-> SeedWorkspace, name |-> "Eng"]>>
    /\ page = <<[_id |-> SeedPage, workspace_id |-> str(SeedWorkspace), title |-> "Untitled"]>>
    /\ block = <<>>
    /\ nextId = 1
    /\ inflight = [s \in Slots |-> Idle]
    /\ resp = NoResponse

FieldsSpec == FieldsInit /\ [][FieldsNext]_vars

(* ------------------------------ properties ----------------------------- *)

\* A request has just been answered in this step.
Answered(op) == resp.op = "none" /\ resp'.op = op

\* The documents of a collection, as a set.
Docs(coll) == {coll[i] : i \in DOMAIN coll}

\* C1: when requests are handled one at a time, a Delete Page with a
\* well-formed page_id answers 200 or 404 and, in both cases, leaves no block
\* whose page_id field equals the page_id string of the request.
C1_DeletePageLeavesNoBlock ==
    (resp.op = "delete_page" /\ IsValidOid(resp.id)) =>
        /\ resp.status \in {200, 404}
        /\ \A b \in Docs(block) : b.page_id # resp.id

\* A Delete Page answered NotFound in a store that has held a block.
C1_Witness ==
    /\ resp.op = "delete_page"
    /\ resp.status = 404
    /\ IsValidOid(resp.id)
    /\ block = <<>>
    /\ nextId = MaxIds + 1

\* C2: when requests are handled one at a time, a Create Block whose page_id
\* is well-formed and is the id of no stored page is answered 404 "Page not
\* found", and the block collection is the same after it as before it.
C2_CreateBlockMissingPage ==
    [][(Answered("create_block") /\ IsValidOid(resp'.id) /\ find_one(page, ObjectId(resp'.id)) = None)
          => (resp'.status = 404 /\ resp'.result = "Page not found" /\ block' = block)]_vars

\* A Create Block answered NotFound while the store holds a block.
C2_Witness ==
    /\ resp.op = "create_block"
    /\ resp.status = 404
    /\ block # <<>>

\* C3: when requests are handled one at a time, a Create Page whose
\* workspace_id is well-formed and is the id of no stored workspace is
\* answered 404 "Workspace not found", and the page collection is the same
\* after it as before it.
C3_CreatePageMissingWorkspace ==
    [][(Answered("create_page") /\ IsValidOid(resp'.id) /\ find_one(workspace, ObjectId(resp'.id)) = None)
          => (resp'.status = 404 /\ resp'.result = "Workspace not found" /\ page' = page)]_vars

\* A Create Page answered NotFound while the store holds a page.
C3_Witness ==
    /\ resp.op = "create_page"
    /\ resp.status = 404
    /\ page # <<>>

\* The operations that take an identifier the handler parses.
IdOps == {"create_page", "create_block", "update_page", "update_block", "delete_page", "delete_block"}

\* C4: a request of an id-accepting operation whose identifier is malformed
\* is answered 400 "Invalid id", whatever its payload, and its handler has
\* made no store call.
C4_MalformedIdRejected ==
    (resp.op \in IdOps /\ ~IsValidOid(resp.id)) => (resp.status = 400 /\ resp.calls = 0)

UpdateOps == {"update_page", "update_block"}

AllAbsent(body) == \A f \in DOMAIN body : body[f] = Absent

\* C5: an Update Page or Update Block whose body has no field present is
\* answered 200 with only the identifier of the request, its handler makes no
\* store call, and no collection changes.
C5_EmptyUpdateEchoesId ==
    [][\A op \in UpdateOps :
          (Answered(op) /\ AllAbsent(resp'.body)) =>
              /\ resp'.status = 200
              /\ resp'.result = [_id |-> resp'.id]
              /\ resp'.calls = 0
              /\ UNCHANGED <<workspace, page, block>>]_vars

\* An empty Update Block of a stored block has been answered.
C5_Witness ==
    /\ resp.op = "update_block"
    /\ AllAbsent(resp.body)
    /\ IsValidOid(resp.id)
    /\ find_one(block, ObjectId(resp.id)) # None

\* C6: List Blocks returns each stored block whose page_id equals the
\* string of the request exactly once, and no other; positions do not decrease
\* along the list, and of two blocks of equal position the one created first
\* (the one with the smaller generated id) comes first.
C6_ListBlocksSorted ==
    resp.op = "list_blocks" =>
        LET r == resp.result
            matching == {b \in Docs(block) : b.page_id = resp.id}
        IN  /\ {r[i] : i \in DOMAIN r} = {serialize(b) : b \in matching}
            /\ Len(r) = Cardinality(matching)
            /\ \A i, j \in DOMAIN r :
                   i < j => /\ r[i].position <= r[j].position
                            /\ r[i].position = r[j].position => ObjectId(r[i]._id) < ObjectId(r[j]._id)

\* A list of two blocks of equal position.
C6_Witness ==
    /\ resp.op = "list_blocks"
    /\ Len(resp.result) = 2
    /\ resp.result[1].position = resp.result[2].position

\* An update has just been applied to a matching record by the request in slot s.
UpdateApplied(s, op) == inflight[s].op = "idle" /\ inflight'[s].op = op

\* The declared fields a request body supplies: present with a value, or,
\* when null counts as supplied, present as null too.
SuppliedFields(declared, body, nullCounts) ==
    {f \in declared \cap DOMAIN body : body[f] # Absent /\ (nullCounts \/ body[f] # Null)}

\* The stored field holds the value the body supplies (no stored field of
\* these behaviours is null).
HoldsSupplied(doc, body, f) == body[f].p = "val" /\ doc[f] = body[f].v

\* The record of id oid holds the supplied values in the supplied fields and
\* its old values in the others; every other record of the collection is as it was.
UpdateEffect(coll, after, oid, supplied, body) ==
    /\ DOMAIN after = DOMAIN coll
    /\ \A i \in DOMAIN coll :
           IF coll[i]._id = oid
           THEN /\ DOMAIN after[i] = DOMAIN coll[i]
                /\ \A f \in DOMAIN coll[i] :
                       IF f \in supplied THEN HoldsSupplied(after[i], body, f) ELSE after[i][f] = coll[i][f]
           ELSE after[i] = coll[i]

UpdateFrame(nullCounts) ==
    \A s \in Slots :
        /\ UpdateApplied(s, "update_page") =>
               /\ UpdateEffect(page, page', ObjectId(inflight'[s].id),
                               SuppliedFields(UpdatePage, inflight'[s].body, nullCounts), inflight'[s].body)
               /\ UNCHANGED <<workspace, block>>
        /\ UpdateApplied(s, "update_block") =>
               /\ UpdateEffect(block, block', ObjectId(inflight'[s].id),
                               SuppliedFields(UpdateBlock, inflight'[s].body, nullCounts), inflight'[s].body)
               /\ UNCHANGED <<workspace, page>>

\* C7 as stated: after a non-empty update matched record R, every supplied
\* field of R (one sent as null included) holds the supplied value, every
\* other field of R and every other record is unchanged.
C7_Original == [][UpdateFrame(TRUE)]_vars

\* C7 as amended: after a non-empty update matched record R, every field
\* supplied with a non-null value holds that value; every other field of R
\* (a field sent as null, workspace_id, page_id and type included) and every
\* other record is unchanged.
C7_UpdateFrame == [][UpdateFrame(FALSE)]_vars

\* An Update Block that supplies only checked has been applied to one of two
\* stored blocks, whose content is still the created one.
C7_Witness ==
    \E s \in Slots :
        /\ inflight[s].op = "update_block"
        /\ inflight[s].body = [content |-> Absent, checked |-> Val(FALSE), position |-> Absent]
        /\ Len(block) = 2
        /\ find_one(block, ObjectId(inflight[s].id)).content = "c"
        /\ find_one(block, ObjectId(inflight[s].id)).checked = FALSE

Declared(op) == IF op = "update_page" THEN UpdatePage ELSE UpdateBlock

Collection(op) == IF op = "update_page" THEN page ELSE block

\* A field is written exactly when the body supplies it: a request with a
\* well-formed identifier that supplies a field is not answered as an empty
\* update, and in the matched record a supplied field holds the supplied
\* value and any other field its old value.
WrittenIffSupplied(nullCounts) ==
    \A op \in UpdateOps :
        /\ (Answered(op) /\ IsValidOid(resp'.id) /\ resp'.status = 200 /\ resp'.calls = 0) =>
               SuppliedFields(Declared(op), resp'.body, nullCounts) = {}
        /\ \A s \in Slots :
               UpdateApplied(s, op) =>
                   LET body == inflight'[s].body
                       old == find_one(Collection(op), ObjectId(inflight'[s].id))
                       new == find_one(Collection(op)', ObjectId(inflight'[s].id))
                   IN  \A f \in Declared(op) :
                           IF f \in SuppliedFields(Declared(op), body, nullCounts)
                           THEN HoldsSupplied(new, body, f)
                           ELSE new[f] = old[f]

\* C8 as stated: a field is written if and only if the request supplies it
\* (a falsy value and null included); only a field absent from the request is
\* left out.
C8_Original == [][WrittenIffSupplied(TRUE)]_vars

\* C8 as amended: a field is written if and only if the request supplies it
\* with a non-null value, a falsy value ("", false, 0) included; a field that
\* is absent or null is left out.
C8_WrittenIffNonNull == [][WrittenIffSupplied(FALSE)]_vars

\* An Update Block that supplies the falsy value of each field has been
\* applied, and the block holds them.
C8_Witness ==
    \E s \in Slots :
        /\ inflight[s].op = "update_block"
        /\ inflight[s].body = [content |-> Val(""), checked |-> Val(FALSE), position |-> Val(0)]
        /\ find_one(block, ObjectId(inflight[s].id)).content = ""
        /\ find_one(block, ObjectId(inflight[s].id)).checked = FALSE
        /\ find_one(block, ObjectId(inflight[s].id)).position = 0

\* C9: every stored page's workspace_id parses to the id of a stored workspace.
C9_PageWorkspaceExists ==
    \A p \in Docs(page) :
        /\ IsValidOid(p.workspace_id)
        /\ find_one(workspace, ObjectId(p.workspace_id)) # None

\* A page stored under the upper-case form of its workspace's id.
C9_Witness == \E p \in Docs(page) : p.workspace_id.upper

\* C10: every stored block has type text or todo and a position >= 0.
C10_BlockTypeAndPosition ==
    \A b \in Docs(block) : b.type \in {"text", "todo"} /\ b.position >= 0

\* A block created under a stored page: its page_id parses to the page's id.
BlocksUnder(p) == {b \in Docs(block) : IsValidOid(b.page_id) /\ ObjectId(b.page_id) = p._id}

\* C11: while a page P and a block created under P (under any identifier
\* string that parses to P's id) are both stored, List Blocks called with the
\* string form of P's id, the one Create Page returned, contains the block.
C11_CreatedBlockListed ==
    \A p \in Docs(page) : \A b \in BlocksUnder(p) :
        \E i \in DOMAIN list_blocks_result(str(p._id)) : list_blocks_result(str(p._id))[i] = serialize(b)

\* C12: List Pages is always answered 200; with a workspace_id supplied (any
\* string, the empty one included) the answer holds exactly the stored pages
\* whose workspace_id equals that string, each once; with none, every page.
C12_ListPagesFilter ==
    resp.op = "list_pages" =>
        LET r == resp.result
            matching == {p \in Docs(page) : resp.id = PyNone \/ p.workspace_id = resp.id}
        IN  /\ resp.status = 200
            /\ {r[i] : i \in DOMAIN r} = {serialize(p) : p \in matching}
            /\ Len(r) = Cardinality(matching)

\* The number of entries of a list answer that carry the id string.
Occurrences(result, id) == Cardinality({i \in DOMAIN result : result[i]._id = id})

\* C13: Create Workspace answers with the string form of the id of the one
\* workspace it has just stored; no step removes a stored workspace or
\* changes its id; and every List Workspaces answer holds each stored
\* workspace exactly once, under the string form of its id.
C13_WorkspaceListedOnce ==
    [][/\ Answered("create_workspace") =>
              /\ resp'.status = 200
              /\ find_one(workspace, ObjectId(resp'.result._id)) = None
              /\ Cardinality({i \in DOMAIN workspace' : str(workspace'[i]._id) = resp'.result._id}) = 1
       /\ \A w \in Docs(workspace) : find_one(workspace', w._id) = w
       /\ Answered("list_workspaces") =>
              /\ resp'.status = 200
              /\ \A w \in Docs(workspace') : Occurrences(resp'.result, str(w._id)) = 1]_vars

\* Two workspaces have been created and a List Workspaces answered with both.
C13_Witness ==
    /\ resp.op = "list_workspaces"
    /\ Len(workspace) = 2
    /\ Occurrences(resp.result, str(1)) = 1
    /\ \E n \in NativeIds \ {1} : Occurrences(resp.result, str(n)) = 1

\* A Delete Page of the identifier string is between its two store calls.
DeletePending(id) == \E t \in Slots : inflight[t].op = "delete_page" /\ inflight[t].id = id

\* A stored block whose page_id is the id of no stored page.
Orphan(b, pages) == find_one(pages, ObjectId(b.page_id)) = None

\* C14: when a Create Block that has passed its existence check for page P
\* makes its insert after a Delete Page of P has run to completion (P is gone
\* and no Delete Page of P is between its store calls), it is answered 200
\* with the block it stored, whose page_id is the id of no stored page; and a
\* stored orphan block is still stored and still an orphan after every step
\* that is neither a Delete Block nor the cascade of a Delete Page of its page_id.
C14_OrphanAfterRace ==
    [][/\ \A s \in Slots :
              (/\ inflight[s].op = "create_block"
               /\ inflight'[s].op = "idle"
               /\ find_one(page, ObjectId(inflight[s].payload.page_id)) = None
               /\ ~DeletePending(inflight[s].payload.page_id))
              => /\ resp'.op = "create_block"
                 /\ resp'.status = 200
                 /\ \E b \in Docs(block') :
                        /\ b._id = nextId
                        /\ b.page_id = inflight[s].payload.page_id
                        /\ resp'.result = serialize(b)
                        /\ Orphan(b, page')
       /\ \A b \in Docs(block) :
              (Orphan(b, page) /\ ~DeletePending(b.page_id) /\ ~Answered("delete_block"))
              => \E c \in Docs(block') : c._id = b._id /\ c.page_id = b.page_id /\ Orphan(c, page')]_vars

\* A Create Block has been answered 200 after its page was deleted, the
\* Delete Page has been answered too, and the orphan block is stored.
C14_Witness ==
    /\ AllIdle
    /\ resp.op = "create_block"
    /\ resp.status = 200
    /\ \E b \in Docs(block) : str(b._id) = resp.result._id /\ b.page_id = resp.id /\ Orphan(b, page)

\* C15: under every interleaving, an Update Page or Update Block whose
\* update mapping is not empty and that is answered 200 returns the record of
\* its target (not a null or empty body), in which every field the request
\* supplied holds the supplied value.
C15_UpdateReturnsRecord ==
    (/\ resp.op \in UpdateOps
     /\ resp.status = 200
     /\ DOMAIN update_mapping(Declared(resp.op), resp.body) # {})
    => /\ resp.result # None
       /\ resp.result._id = str(ObjectId(resp.id))
       /\ \A f \in DOMAIN update_mapping(Declared(resp.op), resp.body) :
              resp.result[f] = update_mapping(Declared(resp.op), resp.body)[f]

ListOps == {"list_workspaces", "list_pages", "list_blocks"}

\* The ids of the stored documents of a collection, one entry per document.
Ids(coll) == [i \in DOMAIN coll |-> coll[i]._id]

\* The step leaves the same workspaces, pages and blocks stored.
ExistenceUnchanged ==
    /\ Ids(workspace') = Ids(workspace)
    /\ Ids(page') = Ids(page)
    /\ Ids(block') = Ids(block)

NotFoundDetail(op) == IF op = "update_page" THEN "Page not found" ELSE "Block not found"

\* An update request arrives, finds no record of its well-formed id, and is
\* answered in the same step.
UpdateOfAbsent(op) ==
    /\ Answered(op)
    /\ UNCHANGED inflight
    /\ IsValidOid(resp'.id)
    /\ find_one(Collection(op), ObjectId(resp'.id)) = None

\* No step of an Update or a List changes which workspaces, pages and blocks
\* are stored, and an Update of a well-formed id of no stored record (when
\* nonEmptyOnly: one whose update mapping is not empty) is answered 404.
UpdateAndListKeepExistence(nonEmptyOnly) ==
    /\ \A op \in UpdateOps \cup ListOps :
           (Answered(op) \/ \E s \in Slots : UpdateApplied(s, op)) => ExistenceUnchanged
    /\ \A op \in UpdateOps :
           (UpdateOfAbsent(op) /\ (nonEmptyOnly => DOMAIN update_mapping(Declared(op), resp'.body) # {}))
           => (resp'.status = 404 /\ resp'.result = NotFoundDetail(op))

\* C16 as stated: no Update or List changes which entities exist, and every
\* Update of a well-formed id of an absent entity fails with NotFound and
\* creates no record.
C16_Original == [][UpdateAndListKeepExistence(FALSE)]_vars

\* C16 as amended: no Update or List changes which entities exist, and every
\* Update with a non-empty update mapping of a well-formed id of an absent
\* entity fails with NotFound and creates no record (an empty one is answered
\* 200 with the identifier, and creates no record either).
C16_UpdateAndListKeepExistence == [][UpdateAndListKeepExistence(TRUE)]_vars

\* An Update Page of a well-formed id of no stored page has been answered
\* NotFound while another page is stored.
C16_Witness ==
    /\ resp.op = "update_page"
    /\ resp.status = 404
    /\ IsValidOid(resp.id)
    /\ Len(page) = 1
    /\ find_one(page, ObjectId(resp.id)) = None

\* C17: a Delete Block with a well-formed id of a stored block is answered
\* 200 {deleted: true} and removes that block and no other; with a
\* well-formed id of no stored block it is answered 404 "Block not found"
\* and the blocks are as they were; in both cases the workspaces and the
\* pages are as they were.
C17_DeleteBlockFrame ==
    [][(Answered("delete_block") /\ IsValidOid(resp'.id)) =>
          /\ IF find_one(block, ObjectId(resp'.id)) # None
             THEN /\ resp'.status = 200
                  /\ resp'.result = [deleted |-> TRUE]
                  /\ block' = SelectSeq(block, LAMBDA d : d._id # ObjectId(resp'.id))
                  /\ Len(block') = Len(block) - 1
             ELSE /\ resp'.status = 404
                  /\ resp'.result = "Block not found"
                  /\ block' = block
          /\ UNCHANGED <<workspace, page>>]_vars

\* One of two stored blocks has been deleted; the other is still stored.
C17_Witness ==
    /\ resp.op = "delete_block"
    /\ resp.status = 200
    /\ Len(block) = 1
    /\ find_one(block, ObjectId(resp.id)) = None

\* C18: when requests are handled one at a time, between requests every
\* stored block's page_id parses to the id of a stored page; and after a
\* Delete Page answered 200 no stored block's page_id parses to the id the
\* request's identifier string parses to, whichever accepted strings the
\* Create Block and the Delete Page were sent.
C18_BlockPageExists ==
    AllIdle =>
        /\ \A b \in Docs(block) : IsValidOid(b.page_id) /\ ~Orphan(b, page)
        /\ (resp.op = "delete_page" /\ resp.status = 200) =>
               \A b \in Docs(block) : ObjectId(b.page_id) # ObjectId(resp.id)

====
